---- MODULE Spec2Model ----
(***************************************************************************)
(* Model of the polyfills of this repository:                              *)
(*   - the structured-clone codec (serialize / deserialize / stringify /   *)
(*     parse) of src/unnamed/part_000,                                     *)
(*   - Object.fromEntries of src/scripts/12.1/Object.fromEntries.js,       *)
(*   - the smooth-scroll loop (smoothScroll / step) of                     *)
(*     src/scripts/15.4/Element.SmoothScroll.js.                           *)
(*                                                                         *)
(* A JavaScript value is a record [t, v, id]: t is the value's kind, v the *)
(* text of a scalar (numbers, strings, booleans and big-integers are kept  *)
(* as their literal text) and id the identity of an object, function or    *)
(* symbol.  An object lives in a heap: a function from identities to       *)
(* object records.  serialize and deserialize are pure functions of their  *)
(* input and are translated as recursive operators that thread the         *)
(* closure state ($ and _) through the calls; the depth of the JavaScript  *)
(* call stack is bounded by MaxStack, beyond which the engine raises its   *)
(* stack-overflow RangeError.                                              *)
(***************************************************************************)
EXTENDS Integers, Sequences, FiniteSets

VARIABLES heap, root, options, pc, ser, des, text, entryList, feOut,
          clock, position, frames, batch, contexts, calls

\* the state of the smooth-scroll polyfill: the clock that now() reads, the
\* position of each scrollable, the frame callbacks requested for the next
\* animation frame, the callbacks of the current frame that have not run
\* yet, the contexts of the scrolls started and the number of calls made
scrollVars == <<clock, position, frames, batch, contexts, calls>>

vars == <<heap, root, options, pc, ser, des, text, entryList, feOut, scrollVars>>

----------------------------------------------------------------------------
\* Bounds of the model.

\* number of objects of an input value graph
NObj == 2
\* longest array, property list, Map or Set of an input value graph
MaxLen == 2
\* deepest nesting of calls the engine allows; every terminating traversal of
\* a graph of NObj objects nests at most NObj + 2 calls of pair or unpair
MaxStack == NObj + 2
\* longest entry list given to Object.fromEntries
MaxEntries == 3
\* largest coordinate, in pixels, of a scroll position or a scroll target
MaxPos == 1
\* number of calls of the scroll functions
MaxScrolls == 2

----------------------------------------------------------------------------
\* Type constants (part_000 lines 12-23).

VOID == -1
PRIMITIVE == 0
ARRAY == 1
OBJECT == 2
DATE == 3
REGEXP == 4
MAP == 5
SET == 6
ERROR == 7
BIGINT == 8
EMPTY == ""

----------------------------------------------------------------------------
\* JavaScript values.

Null == [t |-> "null", v |-> "", id |-> 0]
Undefined == [t |-> "undefined", v |-> "", id |-> 0]
Bool(b) == [t |-> "boolean", v |-> b, id |-> 0]
Num(n) == [t |-> "number", v |-> n, id |-> 0]
Str(s) == [t |-> "string", v |-> s, id |-> 0]
Big(n) == [t |-> "bigint", v |-> n, id |-> 0]
Fn(i) == [t |-> "function", v |-> "", id |-> i]
Sym(i) == [t |-> "symbol", v |-> "", id |-> i]
Ref(i) == [t |-> "ref", v |-> "", id |-> i]
\* marks a property that an object does not have
Absent == [t |-> "absent", v |-> "", id |-> 0]

IsRef(x) == x.t = "ref"

\* the typeof operator
TypeofOp(x) == IF x.t \in {"ref", "null"} THEN "object" ELSE x.t

\* An object: cls is the constructor that made it; items the elements of an
\* array or Set; entries the own enumerable properties of an object (key,
\* value) or the entries of a Map; prim the [[PrimitiveValue]] of a boxed
\* primitive, the time value of a Date, the source of a RegExp or the message
\* of an error; bytes the content of a typed array, ArrayBuffer or DataView;
\* flags of a RegExp; toJSON the value its toJSON method returns (Absent when
\* it has none); proto the prototype, ObjectPrototype for the one the
\* constructor gives (Object.prototype or an object that inherits from it),
\* else the object or null an assignment to __proto__ has put in its place.
ObjectPrototype == [t |-> "object", v |-> "Object.prototype", id |-> 0]
Obj(cls, items, entries, prim, bytes, flags, toJSON) ==
    [cls |-> cls, items |-> items, entries |-> entries, prim |-> prim,
     bytes |-> bytes, flags |-> flags, toJSON |-> toJSON,
     proto |-> ObjectPrototype]

ErrorClasses == {"Error", "TypeError", "RangeError"}

\* Object.prototype.toString.call(value).slice(8, -1): the builtin tag of the
\* object.  Every object with an [[ErrorData]] slot answers "Error",
\* whatever its class.
asStringOf(o) == IF o.cls \in ErrorClasses THEN "Error" ELSE o.cls

\* String.prototype.includes over the builtin tags of the model
Includes(s, sub) ==
    CASE sub = "Array" -> s \in {"Array", "Uint8Array", "ArrayBuffer"}
      [] sub = "Error" -> s \in {"Error"}
      [] OTHER -> FALSE

\* typeOf (part_000 lines 29-59): <<TYPE, type>>
typeOf(h, value) ==
    LET type == TypeofOp(value) IN
    IF type # "object" \/ value.t = "null" THEN <<PRIMITIVE, type>>
    ELSE LET asString == asStringOf(h[value.id]) IN
         CASE asString = "Array" -> <<ARRAY, EMPTY>>
           [] asString = "Object" -> <<OBJECT, EMPTY>>
           [] asString = "Date" -> <<DATE, EMPTY>>
           [] asString = "RegExp" -> <<REGEXP, EMPTY>>
           [] asString = "Map" -> <<MAP, EMPTY>>
           [] asString = "Set" -> <<SET, EMPTY>>
           [] asString = "DataView" -> <<ARRAY, asString>>
           [] OTHER -> IF Includes(asString, "Array") THEN <<ARRAY, asString>>
                       ELSE IF Includes(asString, "Error") THEN <<ERROR, asString>>
                       ELSE <<OBJECT, asString>>

\* shouldSkip that forgets the symbols
shouldSkipFunctionOnly(T) == T[1] = PRIMITIVE /\ T[2] = "function"

\* shouldSkip (part_000 lines 61-64)
shouldSkip(T) == T[1] = PRIMITIVE /\ (T[2] = "function" \/ T[2] = "symbol")

----------------------------------------------------------------------------
\* Wire records.  A record is the array [tag, payload]: tag is one of the
\* type constants or the name of a constructor; len is the length of the
\* array (1 for [VOID]); shape tells which field holds the payload:
\*   "val"    a scalar (val),
\*   "list"   an array of numbers: slot-ids or bytes (list),
\*   "pairs"  an array of [slot-id, slot-id] (pairs),
\*   "regexp" {source, flags},    "error" {name, message}.

IntTag(n) == [isnum |-> TRUE, num |-> n, str |-> ""]
StrTag(s) == [isnum |-> FALSE, num |-> 0, str |-> s]

BlankRec ==
    [tag |-> IntTag(VOID), len |-> 1, shape |-> "none", val |-> Absent,
     list |-> <<>>, pairs |-> <<>>, source |-> "", flags |-> "",
     name |-> "", message |-> Absent]

RecVoid == BlankRec
RecVal(tag, x) == [BlankRec EXCEPT !.tag = tag, !.len = 2, !.shape = "val", !.val = x]
RecList(tag, l) == [BlankRec EXCEPT !.tag = tag, !.len = 2, !.shape = "list", !.list = l]
RecPairs(tag, l) == [BlankRec EXCEPT !.tag = tag, !.len = 2, !.shape = "pairs", !.pairs = l]
RecRegExp(tag, source, flags) ==
    [BlankRec EXCEPT !.tag = tag, !.len = 2, !.shape = "regexp",
                     !.source = source, !.flags = flags]
RecError(tag, name, message) ==
    [BlankRec EXCEPT !.tag = tag, !.len = 2, !.shape = "error",
                     !.name = name, !.message = message]

\* Map.prototype.set on a map held as a function
Put(m, k, x) == [y \in DOMAIN m \cup {k} |-> IF y = k THEN x ELSE m[y]]

----------------------------------------------------------------------------
\* Library functions the serializer calls.

\* Date.prototype.toISOString of a time value of a few milliseconds
ISOString(time) == "1970-01-01T00:00:00.00" \o time \o "Z"

\* the time values the model draws Dates from ("NaN": an invalid Date)
Times == {"0", "7", "NaN"}

----------------------------------------------------------------------------
\* Serializer (part_000 lines 67-170).  The state of one serialize call:
\*   wire  the array _           map  the identity map $
\*   ret   the slot-id the last call of pair returned
\*   err   "" or the name of the exception that was thrown
\*   calls, hits  count the calls of pair and those answered from $
\*   early  a slot-id was put into a payload before its record existed

SerInit == [wire |-> <<>>, map |-> <<>>, ret |-> -1, err |-> "",
            calls |-> 0, hits |-> 0, fwd |-> 0, early |-> FALSE]

throw(st, name) == [st EXCEPT !.err = name]

\* as that does not enter the value into $
asNoSet(st, out, value) ==
    [st EXCEPT !.wire = Append(st.wire, out), !.ret = (Len(st.wire) + 1) - 1]

\* as (lines 68-72)
as(st, out, value) ==
    LET index == (Len(st.wire) + 1) - 1 IN
    [st EXCEPT !.wire = Append(st.wire, out),
               !.map = Put(st.map, value, index),
               !.ret = index]

\* a push of the slot-id after the one that was returned
pushIdNext(st, index, i) ==
    [st EXCEPT !.wire[index + 1].list = Append(@, i + 1),
               !.early = @ \/ i + 1 >= Len(st.wire)]

\* arr.push(i) / entries.push(i) on the payload of the record in slot index
pushId(st, index, i) ==
    [st EXCEPT !.wire[index + 1].list = Append(@, i),
               !.early = @ \/ i >= Len(st.wire) \/ i < 0]

\* entries.push([k, i]) on the payload of the record in slot index
pushPair(st, index, k, i) ==
    [st EXCEPT !.wire[index + 1].pairs = Append(@, <<k, i>>),
               !.early = @ \/ k >= Len(st.wire) \/ i >= Len(st.wire)
                           \/ k < 0 \/ i < 0]

RECURSIVE pair(_, _, _, _)
RECURSIVE pairArray(_, _, _, _, _)
RECURSIVE pairEntries(_, _, _, _, _, _)
RECURSIVE pairSet(_, _, _, _, _)

\* case PRIMITIVE without the VOID record for undefined
pairPrimitiveNoVoid(c, st, value, type) ==
    CASE type = "bigint" -> as(st, RecVal(IntTag(BIGINT), Str(value.v)), value)
      [] type \in {"function", "symbol"} ->
            IF c.strict THEN throw(st, "TypeError")
            ELSE as(st, RecVal(IntTag(PRIMITIVE), Null), value)
      [] OTHER -> as(st, RecVal(IntTag(PRIMITIVE), value), value)

\* case PRIMITIVE (lines 80-97)
pairPrimitive(c, st, value, type) ==
    CASE type = "bigint" -> as(st, RecVal(IntTag(BIGINT), Str(value.v)), value)
      [] type \in {"function", "symbol"} ->
            IF c.strict THEN throw(st, "TypeError")
            ELSE as(st, RecVal(IntTag(PRIMITIVE), Null), value)
      [] type = "undefined" -> as(st, RecVoid, value)
      [] OTHER -> as(st, RecVal(IntTag(PRIMITIVE), value), value)

\* for (const entry of value) arr.push(pair(entry))  (lines 112-114)
pairArray(c, st, index, items, d) ==
    IF items = <<>> THEN [st EXCEPT !.ret = index]
    ELSE LET r == pair(c, st, Head(items), d + 1) IN
         IF r.err # "" THEN r
         ELSE pairArray(c, pushId(r, index, r.ret), index, Tail(items), d)

\* the loops of case OBJECT (lines 133-136) and case MAP (lines 148-151):
\* an entry is skipped, when not strict, if its value (object) or its key or
\* value (Map) is a function or a symbol
pairEntries(c, st, index, entries, isMap, d) ==
    IF entries = <<>> THEN [st EXCEPT !.ret = index]
    ELSE LET key == Head(entries)[1]
             entry == Head(entries)[2]
             skip == IF isMap
                     THEN shouldSkip(typeOf(c.heap, key)) \/ shouldSkip(typeOf(c.heap, entry))
                     ELSE shouldSkip(typeOf(c.heap, entry))
         IN IF c.strict \/ ~skip
            THEN LET k == pair(c, st, key, d + 1) IN
                 IF k.err # "" THEN k
                 ELSE LET r == pair(c, k, entry, d + 1) IN
                      IF r.err # "" THEN r
                      ELSE pairEntries(c, pushPair(r, index, k.ret, r.ret), index,
                                       Tail(entries), isMap, d)
            ELSE pairEntries(c, st, index, Tail(entries), isMap, d)

\* the loop of case SET (lines 157-160)
pairSet(c, st, index, items, d) ==
    IF items = <<>> THEN [st EXCEPT !.ret = index]
    ELSE IF c.strict \/ ~shouldSkip(typeOf(c.heap, Head(items)))
         THEN LET r == pair(c, st, Head(items), d + 1) IN
              IF r.err # "" THEN r
              ELSE pairSet(c, pushId(r, index, r.ret), index, Tail(items), d)
         ELSE pairSet(c, st, index, Tail(items), d)

\* pair (lines 74-167); d is the depth of the call
pair(c, st0, value, d) ==
    IF d > MaxStack THEN throw(st0, "StackOverflow")
    ELSE
    LET st == [st0 EXCEPT !.calls = @ + 1] IN
    IF value \in DOMAIN st.map
    THEN [st EXCEPT !.ret = st.map[value], !.hits = @ + 1]
    ELSE
    LET T == typeOf(c.heap, value)
        TYPE == T[1]
        type == T[2]
        o == c.heap[value.id]
    IN
    CASE TYPE = PRIMITIVE -> pairPrimitive(c, st, value, type)
      [] TYPE = ARRAY ->
            IF type # EMPTY
            THEN as(st, RecList(StrTag(type), o.bytes), value)
            ELSE LET r == as(st, RecList(IntTag(TYPE), <<>>), value)
                 IN pairArray(c, r, r.ret, o.items, d)
      [] TYPE = OBJECT ->
            IF type = "BigInt"
            THEN as(st, RecVal(StrTag(type), Str(o.prim.v)), value)
            ELSE IF type \in {"Boolean", "Number", "String"}
            THEN as(st, RecVal(StrTag(type), o.prim), value)
            ELSE IF c.json /\ o.toJSON # Absent
            THEN pair(c, [st EXCEPT !.fwd = @ + 1], o.toJSON, d + 1)
            ELSE LET r == as(st, RecPairs(IntTag(TYPE), <<>>), value)
                 IN pairEntries(c, r, r.ret, o.entries, FALSE, d)
      [] TYPE = DATE ->
            IF o.prim.v = "NaN" THEN throw(st, "RangeError")
            ELSE as(st, RecVal(IntTag(TYPE), Str(ISOString(o.prim.v))), value)
      [] TYPE = REGEXP ->
            as(st, RecRegExp(IntTag(TYPE), o.prim.v, o.flags), value)
      [] TYPE = MAP ->
            LET r == as(st, RecPairs(IntTag(TYPE), <<>>), value)
            IN pairEntries(c, r, r.ret, o.entries, TRUE, d)
      [] TYPE = SET ->
            LET r == as(st, RecList(IntTag(TYPE), <<>>), value)
            IN pairSet(c, r, r.ret, o.items, d)
      [] OTHER ->
            as(st, RecError(IntTag(TYPE), type, o.prim), value)

\* serializer (line 67) returns pair bound to (strict, json, $, _)
serializer(h, strict, json) == [heap |-> h, strict |-> strict, json |-> json]

\* serialize (lines 173-176)
serialize(h, value, opts) ==
    pair(serializer(h, ~(opts.json \/ opts.lossy), opts.json), SerInit, value, 1)

----------------------------------------------------------------------------
\* Library functions the deserializer calls.

ValidTimes == Times \ {"NaN"}

\* new Date(string): the time value of an ISO string, NaN for any other text
DateParse(s) ==
    IF \E time \in ValidTimes : ISOString(time) = s
    THEN CHOOSE time \in ValidTimes : ISOString(time) = s
    ELSE "NaN"

\* ToString, ToPropertyKey, ToNumber and ToBoolean on scalars
ToStringOp(x) ==
    CASE x.t = "null" -> Str("null")
      [] x.t = "undefined" -> Str("undefined")
      [] OTHER -> Str(x.v)
ToPropertyKey(x) == IF x.t \in {"string", "symbol"} THEN x ELSE ToStringOp(x)
ToNumberOp(x) ==
    CASE x.t = "number" -> x
      [] x.t = "null" -> Num("0")
      [] x.t = "boolean" -> IF x.v = "true" THEN Num("1") ELSE Num("0")
      [] x.t = "string" /\ x.v \in {"0", "1"} -> Num(x.v)
      [] OTHER -> Num("NaN")
ToBooleanOp(x) ==
    CASE x.t = "boolean" -> x
      [] x.t \in {"null", "undefined"} -> Bool("false")
      [] x.t = "number" -> IF x.v \in {"0", "NaN"} THEN Bool("false") ELSE Bool("true")
      [] x.t = "string" -> IF x.v = "" THEN Bool("false") ELSE Bool("true")
      [] OTHER -> Bool("true")

NewObj(cls) == Obj(cls, <<>>, <<>>, Absent, <<>>, "", Absent)

\* the constructors of the global object that take the payload of a record
\* with a constructor name as tag
EnvConstructors == {"Boolean", "Number", "String", "Uint8Array"} \cup ErrorClasses

\* new env[type](value) of a record rec
Construct(type, rec) ==
    LET value == IF rec.shape = "val" THEN rec.val ELSE Undefined IN
    CASE type = "Boolean" -> [NewObj(type) EXCEPT !.prim = ToBooleanOp(value)]
      [] type = "Number" -> [NewObj(type) EXCEPT !.prim = ToNumberOp(value)]
      [] type = "String" -> [NewObj(type) EXCEPT !.prim = ToStringOp(value)]
      [] type = "Uint8Array" ->
            [NewObj(type) EXCEPT !.bytes = [i \in DOMAIN rec.list |-> rec.list[i] % 256]]
      [] OTHER -> \* an error class: new env[name](message)
            [NewObj(type) EXCEPT !.prim = IF value.t = "undefined" THEN Str("")
                                          ELSE ToStringOp(value)]

\* Map.prototype.set on the entry list of a Map: a new key goes to the end
MapSet(entries, key, x) ==
    IF \E i \in DOMAIN entries : entries[i][1] = key
    THEN [i \in DOMAIN entries |-> IF entries[i][1] = key THEN <<key, x>> ELSE entries[i]]
    ELSE Append(entries, <<key, x>>)

\* The own properties of an object are listed as the engine orders them:
\* the keys that are array indices in ascending order, then the other
\* strings in the order of their creation, then the symbols.
ArrayIndexKeys == <<"0", "1", "2", "3", "4", "5", "6", "7", "8", "9">>
IsArrayIndex(key) ==
    key.t = "string" /\ \E i \in DOMAIN ArrayIndexKeys : ArrayIndexKeys[i] = key.v
IndexOf(key) == CHOOSE i \in DOMAIN ArrayIndexKeys : ArrayIndexKeys[i] = key.v
KeyRank(key) == IF IsArrayIndex(key) THEN 0 ELSE IF key.t = "symbol" THEN 2 ELSE 1

\* an own key stays in front of a key that is being created
StaysBefore(own, key) ==
    \/ KeyRank(own) < KeyRank(key)
    \/ KeyRank(own) = KeyRank(key) /\ (IsArrayIndex(key) => IndexOf(own) < IndexOf(key))

HasOwn(entries, key) == \E i \in DOMAIN entries : entries[i][1] = key

\* the own data property key of an object is set to x, or created
DefineOwn(entries, key, x) ==
    IF HasOwn(entries, key)
    THEN [i \in DOMAIN entries |-> IF entries[i][1] = key THEN <<key, x>> ELSE entries[i]]
    ELSE LET n == Cardinality({i \in DOMAIN entries : StaysBefore(entries[i][1], key)})
         IN SubSeq(entries, 1, n) \o << <<key, x>> >> \o SubSeq(entries, n + 1, Len(entries))

\* The accessor __proto__ of Object.prototype is what an assignment to
\* "__proto__" reaches on an object with the prototype p: the chain from p
\* ends in Object.prototype and no object of it has an own "__proto__".
RECURSIVE InheritsProtoSetter(_, _, _)
InheritsProtoSetter(h, p, fuel) ==
    CASE p = ObjectPrototype -> TRUE
      [] IsRef(p) /\ fuel > 0 /\ p.id \in DOMAIN h ->
            /\ ~HasOwn(h[p.id].entries, Str("__proto__"))
            /\ InheritsProtoSetter(h, h[p.id].proto, fuel - 1)
      [] OTHER -> FALSE

\* the chain of prototypes from the value x reaches the object self
RECURSIVE ProtoChainReaches(_, _, _, _)
ProtoChainReaches(h, x, self, fuel) ==
    /\ IsRef(x)
    /\ \/ x = self
       \/ fuel > 0 /\ x.id \in DOMAIN h /\ ProtoChainReaches(h, h[x.id].proto, self, fuel - 1)

\* object[key] = x on the ordinary object self (Absent for an object that
\* is not on the heap h) with the own properties entries and the prototype
\* proto: the properties and the prototype after the assignment, and the
\* exception it throws.  The key "__proto__" runs the accessor when it is
\* inherited, which creates no own property, replaces the prototype if x is
\* an object or null and throws a TypeError if that would close a cycle of
\* prototypes; any other assignment sets or creates the own property.
SetProp(h, self, entries, proto, key, x) ==
    IF /\ key = Str("__proto__")
       /\ ~HasOwn(entries, key)
       /\ InheritsProtoSetter(h, proto, Len(h) + 1)
    THEN IF ProtoChainReaches(h, x, self, Len(h) + 1)
         THEN [entries |-> entries, proto |-> proto, err |-> "TypeError"]
         ELSE [entries |-> entries,
               proto |-> IF IsRef(x) \/ x = Null THEN x ELSE proto,
               err |-> ""]
    ELSE [entries |-> DefineOwn(entries, key, x), proto |-> proto, err |-> ""]

\* Set.prototype.add on the element list of a Set
SetAdd(items, x) ==
    IF \E i \in DOMAIN items : items[i] = x THEN items ELSE Append(items, x)

----------------------------------------------------------------------------
\* Deserializer (part_000 lines 179-243).  The state of one deserialize call:
\*   wire  the array _
\*   map   the identity map $; a key is a slot-id (IdxKey) or, where the code
\*         passes the payload of a record instead, that array (PayloadKey)
\*   heap  the objects constructed so far, ret the value the last call of
\*         unpair returned, err "" or the name of the exception thrown

IdxKey(i) == [k |-> "index", i |-> i]
PayloadKey(i) == [k |-> "payload", i |-> i]

DesInit(wire) == [wire |-> wire, map |-> <<>>, heap |-> <<>>, ret |-> Undefined,
                  err |-> ""]

\* as that does not enter the value into $
asOutNoSet(st, out, key) == [st EXCEPT !.ret = out]

\* as (lines 180-183)
asOut(st, out, key) == [st EXCEPT !.map = Put(st.map, key, out), !.ret = out]

\* the evaluation of an object-creating expression: the new object is put on
\* the heap and the expression's value is the reference to it
New(st, o) == [st EXCEPT !.heap = Append(st.heap, o), !.ret = Ref(Len(st.heap) + 1)]

RECURSIVE unpair(_, _, _)
RECURSIVE unpairArray(_, _, _, _)
RECURSIVE unpairEntries(_, _, _, _, _)
RECURSIVE unpairSet(_, _, _, _)

\* for (const index of value) arr.push(unpair(index))  (lines 196-198)
unpairArray(st, arr, list, d) ==
    IF list = <<>> THEN [st EXCEPT !.ret = arr]
    ELSE LET r == unpair(st, Head(list), d + 1) IN
         IF r.err # "" THEN r
         ELSE unpairArray([r EXCEPT !.heap[arr.id].items = Append(@, r.ret)],
                          arr, Tail(list), d)

\* object[unpair(key)] = unpair(index)  (lines 202-204) and
\* map.set(unpair(key), unpair(index))  (lines 214-216)
unpairEntries(st, object, pairs, isMap, d) ==
    IF pairs = <<>> THEN [st EXCEPT !.ret = object]
    ELSE LET k == unpair(st, Head(pairs)[1], d + 1) IN
         IF k.err # "" THEN k
         ELSE LET r == unpair(k, Head(pairs)[2], d + 1) IN
              IF r.err # "" THEN r
              ELSE IF isMap
              THEN unpairEntries(
                       [r EXCEPT !.heap[object.id].entries = MapSet(@, k.ret, r.ret)],
                       object, Tail(pairs), isMap, d)
              ELSE LET o == r.heap[object.id]
                       set == SetProp(r.heap, object, o.entries, o.proto,
                                      ToPropertyKey(k.ret), r.ret)
                   IN IF set.err # "" THEN throw(r, set.err)
                      ELSE unpairEntries(
                               [r EXCEPT !.heap[object.id].entries = set.entries,
                                         !.heap[object.id].proto = set.proto],
                               object, Tail(pairs), isMap, d)

\* for (const index of value) set.add(unpair(index))  (lines 220-222)
unpairSet(st, set, list, d) ==
    IF list = <<>> THEN [st EXCEPT !.ret = set]
    ELSE LET r == unpair(st, Head(list), d + 1) IN
         IF r.err # "" THEN r
         ELSE unpairSet([r EXCEPT !.heap[set.id].items = SetAdd(@, r.ret)],
                        set, Tail(list), d)

\* unpair (lines 185-240); d is the depth of the call
unpair(st, index, d) ==
    IF d > MaxStack THEN throw(st, "StackOverflow")
    ELSE IF IdxKey(index) \in DOMAIN st.map
    THEN [st EXCEPT !.ret = st.map[IdxKey(index)]]
    ELSE IF index < 0 \/ index >= Len(st.wire) THEN throw(st, "TypeError")
    ELSE
    LET rec == st.wire[index + 1]
        type == rec.tag
        num == type.isnum
    IN
    CASE num /\ type.num \in {PRIMITIVE, VOID} ->
            asOut(st, IF rec.len = 2 /\ rec.shape = "val" THEN rec.val ELSE Undefined,
                  IdxKey(index))
      [] num /\ type.num = ARRAY ->
            LET n == New(st, NewObj("Array"))
                arr == n.ret
            IN unpairArray(asOut(n, arr, IdxKey(index)), arr, rec.list, d)
      [] num /\ type.num = OBJECT ->
            LET n == New(st, NewObj("Object"))
                object == n.ret
            IN unpairEntries(asOut(n, object, IdxKey(index)), object, rec.pairs, FALSE, d)
      [] num /\ type.num = DATE ->
            LET n == New(st, [NewObj("Date") EXCEPT !.prim = Num(DateParse(rec.val.v))])
            IN asOut(n, n.ret, IdxKey(index))
      [] num /\ type.num = REGEXP ->
            LET n == New(st, [NewObj("RegExp") EXCEPT !.prim = Str(rec.source),
                                                      !.flags = rec.flags])
            IN asOut(n, n.ret, IdxKey(index))
      [] num /\ type.num = MAP ->
            LET n == New(st, NewObj("Map"))
                map == n.ret
            IN unpairEntries(asOut(n, map, IdxKey(index)), map, rec.pairs, TRUE, d)
      [] num /\ type.num = SET ->
            LET n == New(st, NewObj("Set"))
                set == n.ret
            IN unpairSet(asOut(n, set, IdxKey(index)), set, rec.list, d)
      [] num /\ type.num = ERROR ->
            IF rec.name \notin ErrorClasses THEN throw(st, "TypeError")
            ELSE LET n == New(st, Construct(rec.name, RecVal(type, rec.message)))
                 IN asOut(n, n.ret, IdxKey(index))
      [] num /\ type.num = BIGINT ->
            asOut(st, Big(rec.val.v), IdxKey(index))
      [] ~num /\ type.str = "BigInt" ->
            LET n == New(st, [NewObj("BigInt") EXCEPT !.prim = Big(rec.val.v)])
            IN asOut(n, n.ret, IdxKey(index))
      [] ~num /\ type.str = "ArrayBuffer" ->
            LET n == New(st, [NewObj("ArrayBuffer") EXCEPT
                                  !.bytes = [i \in DOMAIN rec.list |-> rec.list[i] % 256]])
            IN asOut(n, n.ret, PayloadKey(index))
      [] ~num /\ type.str = "DataView" ->
            LET n == New(st, [NewObj("DataView") EXCEPT
                                  !.bytes = [i \in DOMAIN rec.list |-> rec.list[i] % 256]])
            IN asOut(n, n.ret, PayloadKey(index))
      [] OTHER ->
            IF num \/ type.str \notin EnvConstructors THEN throw(st, "TypeError")
            ELSE LET n == New(st, Construct(type.str, rec))
                 IN asOut(n, n.ret, IdxKey(index))

\* deserializer (line 179) returns unpair bound to ($, _)
deserializer(serialized) == DesInit(serialized)

\* deserialize (line 246)
deserialize(serialized) == unpair(deserializer(serialized), 0, 1)

----------------------------------------------------------------------------
\* Text transport (part_000 lines 257-261).  The text JSON.stringify writes
\* is held as the JSON document it denotes: a sequence of records whose
\* scalars are JSON's (null, booleans, finite numbers, strings).

\* what JSON.stringify writes for a scalar that is an element of an array
JSONScalar(x) ==
    CASE x.t = "number" /\ x.v = "NaN" -> Null
      [] x.t \in {"undefined", "function", "symbol", "absent"} -> Null
      [] OTHER -> x

\* what JSON.stringify writes for one record [tag, payload]
JSONRecord(rec) ==
    CASE rec.shape = "val" -> [rec EXCEPT !.val = JSONScalar(rec.val)]
      [] rec.shape = "error" ->
            \* a property whose value is undefined is not written
            [rec EXCEPT !.message = IF rec.message.t = "string" THEN rec.message
                                     ELSE IF rec.message.t \in {"undefined", "absent"}
                                     THEN Undefined
                                     ELSE JSONScalar(rec.message)]
      [] OTHER -> rec

\* JSON.stringify of a wire sequence
stringify(wire) == [json |-> [i \in DOMAIN wire |-> JSONRecord(wire[i])]]

\* JSON.parse of a text
parse(str) == str.json

jsonOptions == [json |-> TRUE, lossy |-> TRUE]

NoText == [json |-> <<>>]

----------------------------------------------------------------------------
\* The input value graphs.

\* the scalars the graphs are built from; KeyNames are the property names
Scalars == {Null, Undefined, Num("1"), Num("NaN"), Big("10"), Fn(1), Sym(1)}
KeyNames == <<"a", "b", "c", "d">>

Ids == 1 .. NObj
Refs == {Ref(i) : i \in Ids}

\* the values the first object may hold when it holds no other object
Pool(x) == {x, Str("a"), Ref(1)}

ChildLists(P) == UNION {[1 .. n -> P] : n \in 0 .. MaxLen}

Distinct(c) == \A i, j \in DOMAIN c : i # j => c[i] # c[j]

Props(c) == [i \in DOMAIN c |-> <<Str(KeyNames[i]), c[i]>>]

ContainerKinds == {"Array", "Object", "Map", "Set", "ObjectToJSON"}

\* the container of kind K over the child list c: the properties of an
\* object are named by KeyNames, the entries of a Map pair the children with
\* the children in reverse order, and the toJSON method of an object that
\* has one returns its last child
Container(K, c) ==
    CASE K = "Array" -> [NewObj("Array") EXCEPT !.items = c]
      [] K = "Set" -> [NewObj("Set") EXCEPT !.items = c]
      [] K = "Object" -> [NewObj("Object") EXCEPT !.entries = Props(c)]
      [] K = "Map" ->
            [NewObj("Map") EXCEPT
                !.entries = [i \in DOMAIN c |-> <<c[i], c[Len(c) + 1 - i]>>]]
      [] OTHER -> [NewObj("Object") EXCEPT !.entries = Props(c), !.toJSON = c[Len(c)]]

ContainerOK(K, c) ==
    /\ K \in {"Map", "Set"} => Distinct(c)
    /\ K = "ObjectToJSON" => c # <<>>

Containers(K, P) == {Container(K, c) : c \in {cc \in ChildLists(P) : ContainerOK(K, cc)}}

\* the objects without children
Leaves ==
    {[NewObj("Date") EXCEPT !.prim = Num(time)] : time \in Times}
    \cup {[NewObj("RegExp") EXCEPT !.prim = Str("a+"), !.flags = "g"]}
    \cup {[NewObj(cls) EXCEPT !.prim = Str("boom"),
                              !.entries = << <<Str("code"), Num("1")>> >>]
            : cls \in {"Error", "TypeError"}}
    \cup {[NewObj("Boolean") EXCEPT !.prim = Bool("false")],
          [NewObj("Number") EXCEPT !.prim = Num("1")],
          [NewObj("Number") EXCEPT !.prim = Num("NaN")],
          [NewObj("String") EXCEPT !.prim = Str("a")],
          [NewObj("BigInt") EXCEPT !.prim = Big("10")]}
    \cup {[NewObj(cls) EXCEPT !.bytes = <<1, 255>>]
            : cls \in {"Uint8Array", "ArrayBuffer", "DataView"}}

\* a container among the objects after the first holds x and, by link,
\* nothing else, itself, or the next object (the first object after the last)
Links == {"none", "self", "next"}

RestChildren(x, i, link) ==
    CASE link = "none" -> <<x>>
      [] link = "self" -> <<x, Ref(i)>>
      [] OTHER -> <<x, Ref(IF i = NObj THEN 1 ELSE i + 1)>>

DefaultObj == NewObj("Object")

UsesRest(c) == \E i \in DOMAIN c : c[i].id > 1

\* the first object as a container of kind K of references (to itself and
\* to the other objects) and of a function, that holds at least one other
\* object
Holders(K) ==
    {Container(K, c)
        : c \in {cc \in ChildLists(Refs \cup {Fn(1)}) : ContainerOK(K, cc) /\ UsesRest(cc)}}

Heaps ==
    \* the first object is a leaf
    {[i \in Ids |-> IF i = 1 THEN o ELSE DefaultObj] : o \in Leaves}
    \cup
    \* the first object is a container of scalars and of itself
    UNION {UNION {
        {[i \in Ids |-> IF i = 1 THEN o ELSE DefaultObj] : o \in Containers(K, Pool(x))}
        : K \in ContainerKinds} : x \in Scalars}
    \cup
    \* the first object holds the other objects, which are copies of one leaf
    \* or of one container that refers back to the first object
    UNION {
        {[i \in Ids |-> IF i = 1 THEN o1 ELSE o]
            : o \in Leaves \cup {Container(L, <<Str("a"), Ref(1)>>) : L \in ContainerKinds}}
        : o1 \in UNION {Holders(K) : K \in ContainerKinds}}
    \cup
    \* the first object holds the other objects, which are containers of its
    \* own kind, linked to themselves or in a ring
    UNION {UNION {UNION {
        {[i \in Ids |-> IF i = 1 THEN o1 ELSE Container(K, RestChildren(x, i, link))]
            : o1 \in Holders(K)}
        : K \in ContainerKinds} : x \in Scalars} : link \in Links}

Options == {[json |-> FALSE, lossy |-> FALSE], [json |-> FALSE, lossy |-> TRUE],
            [json |-> TRUE, lossy |-> FALSE]}

DefaultOptions == [json |-> FALSE, lossy |-> FALSE]

----------------------------------------------------------------------------
\* The numbers of the scroll functions are IEEE 754 doubles.  A double is
\* kept exactly, as sign, mantissa and exponent of two: its value is
\* mant * 2^exp, negated when neg holds, where the mantissa is a natural
\* number of at most 53 bits written as a sequence of limbs to the base
\* 2^15, least significant first, and is odd (so that equal doubles are
\* equal records); zero has the empty mantissa.  Every operation computes
\* the exact result and rounds it to 53 bits, to the nearest double with
\* ties to the even mantissa, as +, - and * of the language do.  The
\* doubles of the model lie far from overflow and from the subnormal range,
\* and the sign of zero, which no comparison of the code sees, is not kept.

LimbBits == 15
Precision == 53

\* the limb i of a natural number, 0 beyond its length
Limb(a, i) == IF i >= 1 /\ i <= Len(a) THEN a[i] ELSE 0

\* without leading zero limbs
Trim[a \in Seq(Nat)] ==
    IF a # <<>> /\ a[Len(a)] = 0 THEN Trim[SubSeq(a, 1, Len(a) - 1)] ELSE a

\* a + b + carry
AddCarry[a \in Seq(Nat), b \in Seq(Nat), carry \in Nat] ==
    IF a = <<>> /\ b = <<>>
    THEN IF carry = 0 THEN <<>> ELSE <<carry>>
    ELSE <<(Limb(a, 1) + Limb(b, 1) + carry) % 2 ^ LimbBits>>
            \o AddCarry[IF a = <<>> THEN <<>> ELSE Tail(a),
                        IF b = <<>> THEN <<>> ELSE Tail(b),
                        (Limb(a, 1) + Limb(b, 1) + carry) \div 2 ^ LimbBits]

\* a - b - borrow for a >= b + borrow, with leading zero limbs
SubBorrow[a \in Seq(Nat), b \in Seq(Nat), borrow \in Nat] ==
    IF a = <<>>
    THEN <<>>
    ELSE <<(a[1] - Limb(b, 1) - borrow) % 2 ^ LimbBits>>
            \o SubBorrow[Tail(a),
                         IF b = <<>> THEN <<>> ELSE Tail(b),
                         IF a[1] - Limb(b, 1) - borrow < 0 THEN 1 ELSE 0]

\* a < b
NatLess[a \in Seq(Nat), b \in Seq(Nat)] ==
    IF Len(a) # Len(b) THEN Len(a) < Len(b)
    ELSE IF a = <<>> THEN FALSE
    ELSE IF a[Len(a)] # b[Len(a)] THEN a[Len(a)] < b[Len(a)]
    ELSE NatLess[SubSeq(a, 1, Len(a) - 1), SubSeq(b, 1, Len(a) - 1)]

\* a * k + carry for a limb k
MulCarry[a \in Seq(Nat), k \in Nat, carry \in Nat] ==
    IF a = <<>>
    THEN IF carry = 0 THEN <<>> ELSE <<carry>>
    ELSE <<(a[1] * k + carry) % 2 ^ LimbBits>>
            \o MulCarry[Tail(a), k, (a[1] * k + carry) \div 2 ^ LimbBits]

\* a * b
NatMul[a \in Seq(Nat), b \in Seq(Nat)] ==
    IF a = <<>> \/ b = <<>>
    THEN <<>>
    ELSE Trim[AddCarry[MulCarry[a, b[1], 0], <<0>> \o NatMul[a, Tail(b)], 0]]

\* a * 2^n
NatShl[a \in Seq(Nat), n \in Nat] ==
    IF a = <<>> THEN <<>>
    ELSE [i \in 1 .. n \div LimbBits |-> 0] \o MulCarry[a, 2 ^ (n % LimbBits), 0]

\* a \div 2^r for r < LimbBits
ShiftRight[a \in Seq(Nat), r \in Nat] ==
    Trim[[i \in 1 .. Len(a) |->
            (a[i] \div 2 ^ r) + (Limb(a, i + 1) % 2 ^ r) * 2 ^ (LimbBits - r)]]

\* a \div 2^n
NatShr[a \in Seq(Nat), n \in Nat] ==
    ShiftRight[IF n \div LimbBits >= Len(a)
               THEN <<>>
               ELSE SubSeq(a, n \div LimbBits + 1, Len(a)),
               n % LimbBits]

\* the number of bits of a
BitLen[a \in Seq(Nat)] ==
    IF a = <<>> THEN 0
    ELSE LimbBits * (Len(a) - 1)
            + (CHOOSE n \in 1 .. LimbBits : 2 ^ (n - 1) <= a[Len(a)] /\ a[Len(a)] < 2 ^ n)

\* the bit n of a, counted from 0
Bit[a \in Seq(Nat), n \in Nat] == (Limb(a, n \div LimbBits + 1) \div 2 ^ (n % LimbBits)) % 2

\* the n lowest bits of a are 0
LowZero[a \in Seq(Nat), n \in Nat] ==
    /\ \A i \in 1 .. n \div LimbBits : Limb(a, i) = 0
    /\ Limb(a, n \div LimbBits + 1) % 2 ^ (n % LimbBits) = 0

\* the number of zero bits below the lowest bit set of a # 0
TrailingZeros[a \in Seq(Nat)] ==
    CHOOSE n \in 0 .. LimbBits * Len(a) - 1 : Bit[a, n] = 1 /\ LowZero[a, n]

Doubles == [neg : BOOLEAN, mant : Seq(Nat), exp : Int]

Zero == [neg |-> FALSE, mant |-> <<>>, exp |-> 0]

\* the double mant * 2^exp of a mantissa of at most 53 bits
Exactly[neg \in BOOLEAN, mant \in Seq(Nat), exp \in Int] ==
    IF mant = <<>>
    THEN Zero
    ELSE [neg |-> neg,
          mant |-> NatShr[mant, TrailingZeros[mant]],
          exp |-> exp + TrailingZeros[mant]]

\* the double nearest to mant * 2^exp, ties to even: the bits beyond the 53
\* highest of mant are rounded up when the highest of them is 1 and either
\* one below it is 1 or the lowest bit kept is 1
RoundToDouble[neg \in BOOLEAN, mant \in Seq(Nat), exp \in Int] ==
    IF BitLen[mant] <= Precision
    THEN Exactly[neg, mant, exp]
    ELSE Exactly[neg,
                 IF /\ Bit[mant, BitLen[mant] - Precision - 1] = 1
                    /\ \/ ~LowZero[mant, BitLen[mant] - Precision - 1]
                       \/ Bit[mant, BitLen[mant] - Precision] = 1
                 THEN AddCarry[NatShr[mant, BitLen[mant] - Precision], <<1>>, 0]
                 ELSE NatShr[mant, BitLen[mant] - Precision],
                 exp + BitLen[mant] - Precision]

\* the double of a whole number 0 <= n < 2^15
Whole(n) == IF n = 0 THEN Zero ELSE Exactly[FALSE, <<n>>, 0]

Negate[a \in Doubles] == IF a = Zero THEN Zero ELSE [a EXCEPT !.neg = ~a.neg]

\* ma * 2^e + mb * 2^e or, with different signs, ma * 2^e - mb * 2^e
PlusAligned[aneg \in BOOLEAN, ma \in Seq(Nat), bneg \in BOOLEAN, mb \in Seq(Nat), e \in Int] ==
    IF aneg = bneg THEN RoundToDouble[aneg, AddCarry[ma, mb, 0], e]
    ELSE IF ma = mb THEN Zero
    ELSE IF NatLess[ma, mb] THEN RoundToDouble[bneg, Trim[SubBorrow[mb, ma, 0]], e]
    ELSE RoundToDouble[aneg, Trim[SubBorrow[ma, mb, 0]], e]

\* a + b
Plus[a \in Doubles, b \in Doubles] ==
    IF a = Zero THEN b
    ELSE IF b = Zero THEN a
    ELSE IF a.exp < b.exp
    THEN PlusAligned[a.neg, a.mant, b.neg, NatShl[b.mant, b.exp - a.exp], a.exp]
    ELSE PlusAligned[a.neg, NatShl[a.mant, a.exp - b.exp], b.neg, b.mant, b.exp]

\* a - b
Minus[a \in Doubles, b \in Doubles] == Plus[a, Negate[b]]

\* a * b
Multiply[a \in Doubles, b \in Doubles] ==
    IF a = Zero \/ b = Zero
    THEN Zero
    ELSE RoundToDouble[a.neg # b.neg, NatMul[a.mant, b.mant], a.exp + b.exp]

\* a <= b
AtMost[a \in Doubles, b \in Doubles] == a = b \/ Minus[a, b].neg

\* ~~a for |a| < 2^31: the fraction is cut off
ToInt32[a \in Doubles] ==
    IF a.exp >= 0 THEN a ELSE Exactly[a.neg, NatShr[a.mant, 0 - a.exp], 0]

----------------------------------------------------------------------------
\* the scrollables: the window (el === d.body) and an element
Scrollables == {"window", "element"}

\* no scroll function was called
NoScroll ==
    /\ clock = 0
    /\ position = [el \in Scrollables |-> <<Zero, Zero>>]
    /\ frames = <<>>
    /\ batch = <<>>
    /\ contexts = <<>>
    /\ calls = 0

\* The result of a call of Object.fromEntries: err is "" or the name of the
\* exception thrown, obj the list of own properties of the object returned
\* (none when it threw) and proto its prototype; before the call, the
\* accumulator {} of the reduction.
FeInit == [err |-> "", obj |-> <<>>, proto |-> ObjectPrototype]

----------------------------------------------------------------------------
\* The codec: one value graph, serialized and deserialized, or written as
\* text and parsed.

Init ==
    /\ \/ heap \in Heaps /\ root = Ref(1)
       \/ heap = [i \in Ids |-> DefaultObj] /\ root \in Scalars
    /\ options = DefaultOptions
    /\ pc = "start"
    /\ ser = SerInit
    /\ des = DesInit(<<>>)
    /\ text = NoText
    /\ entryList = <<>>
    /\ feOut = FeInit
    /\ NoScroll

\* serialize(value, options)
Serialize ==
    /\ pc = "start"
    /\ \E opts \in Options :
          /\ options' = opts
          /\ ser' = serialize(heap, root, opts)
    /\ pc' = IF ser'.err = "" THEN "serialized" ELSE "threw"
    /\ UNCHANGED <<heap, root, des, text, entryList, feOut, scrollVars>>

\* deserialize(serialized) of the sequence serialize returned
Deserialize ==
    /\ pc = "serialized"
    /\ des' = deserialize(ser.wire)
    /\ pc' = IF des'.err = "" THEN "deserialized" ELSE "threw"
    /\ UNCHANGED <<heap, root, options, ser, text, entryList, feOut, scrollVars>>

\* stringify(any)
StringifyJSON ==
    /\ pc = "start"
    /\ options' = jsonOptions
    /\ ser' = serialize(heap, root, jsonOptions)
    /\ text' = IF ser'.err = "" THEN stringify(ser'.wire) ELSE NoText
    /\ pc' = IF ser'.err = "" THEN "stringified" ELSE "threw"
    /\ UNCHANGED <<heap, root, des, entryList, feOut, scrollVars>>

\* parse(str) of the text stringify returned
ParseJSON ==
    /\ pc = "stringified"
    /\ des' = deserialize(parse(text))
    /\ pc' = IF des'.err = "" THEN "parsed" ELSE "threw"
    /\ UNCHANGED <<heap, root, options, ser, text, entryList, feOut, scrollVars>>

Next == Serialize \/ Deserialize \/ StringifyJSON \/ ParseJSON

Spec == Init /\ [][Next]_vars

----------------------------------------------------------------------------
\* Object.fromEntries (Object.fromEntries.js lines 2-14).

\* entry[i] of an entry object
Get(o, i) == IF i + 1 \in DOMAIN o.items THEN o.items[i + 1] ELSE Undefined

\* a value that Object(x) returns as it is: an object or a function
IsObject(x) == IsRef(x) \/ x.t = "function"

\* entry[i]: an element of an entry that is an array, nothing of a function
EntryGet(h, entry, i) == IF IsRef(entry) THEN Get(h[entry.id], i) ELSE Undefined

\* obj[key] = val on the accumulator (line 10), an object that no entry
\* holds
Assign(h, acc, key, val) ==
    LET set == SetProp(h, Absent, acc.obj, acc.proto, key, val)
    IN [acc EXCEPT !.obj = set.entries, !.proto = set.proto]

\* the callback given to reduce (lines 4-12): Object(entry) !== entry holds
\* of every value that is neither an object nor a function
reducer(h, acc, entry) ==
    IF ~IsObject(entry) THEN [acc EXCEPT !.err = "TypeError", !.obj = <<>>]
    ELSE LET key == EntryGet(h, entry, 0)
             val == EntryGet(h, entry, 1)
         IN Assign(h, acc, ToPropertyKey(key), val)

\* Array.prototype.reduce.call(iterable, callback, {})
RECURSIVE reduce(_, _, _)
reduce(h, list, acc) ==
    IF list = <<>> \/ acc.err # "" THEN acc
    ELSE reduce(h, Tail(list), reducer(h, acc, Head(list)))

fromEntries(h, iterable) == reduce(h, iterable, FeInit)

\* the entry objects of the model: arrays of a key and a value, an array of
\* a key alone, an empty array, and entries whose key is "__proto__"
EntryObjects ==
    << [NewObj("Array") EXCEPT !.items = <<Str("a"), Num("1")>>],
       [NewObj("Array") EXCEPT !.items = <<Str("a"), Str("x")>>],
       [NewObj("Array") EXCEPT !.items = <<Num("1"), Str("y")>>],
       [NewObj("Array") EXCEPT !.items = <<Str("1"), Num("NaN")>>],
       [NewObj("Array") EXCEPT !.items = <<Str("b")>>],
       [NewObj("Array") EXCEPT !.items = <<>>],
       [NewObj("Array") EXCEPT !.items = <<Str("__proto__"), Num("1")>>],
       [NewObj("Array") EXCEPT !.items = <<Str("__proto__"), Null>>] >>

\* the entries of a list: the entry objects, a function and values that are
\* no objects
Entries ==
    {Ref(i) : i \in DOMAIN EntryObjects} \cup {Fn(1), Null, Undefined, Num("1"), Str("ab")}

EntryLists == UNION {[1 .. n -> Entries] : n \in 0 .. MaxEntries}

InitFromEntries ==
    /\ heap = EntryObjects
    /\ entryList \in EntryLists
    /\ feOut = FeInit
    /\ NoScroll
    /\ pc = "start"
    /\ root = Undefined
    /\ options = DefaultOptions
    /\ ser = SerInit
    /\ des = DesInit(<<>>)
    /\ text = NoText

\* Object.fromEntries(iterable)
FromEntries ==
    /\ pc = "start"
    /\ feOut' = fromEntries(heap, entryList)
    /\ pc' = IF feOut'.err = "" THEN "returned" ELSE "threw"
    /\ UNCHANGED <<heap, root, options, ser, des, text, entryList, scrollVars>>

NextFromEntries == FromEntries

SpecFromEntries == InitFromEntries /\ [][NextFromEntries]_vars

----------------------------------------------------------------------------
\* The scroll functions (Element.SmoothScroll.js): scroll, scrollTo and
\* scrollBy of the window and of an element and scrollIntoView of a child of
\* the element, with the loop of steps that a call with the behavior
\* "smooth" starts.  Two scrollables, the window and an element, which keep
\* the position written to them as it is and are long enough for no
\* position the calls of the model ask for to be clamped.  A coordinate is a
\* double, in pixels.  An animation frame is a sequence of steps of the
\* event loop: the callbacks requested run one by one, and the page may call
\* a scroll function before, between and after them.  Every step and every
\* call reads now() for itself, and now() advances at any moment, also
\* between two callbacks of a frame; the model looks at the clock every
\* third of SCROLL_TIME.

SCROLL_TIME == 468

Third == SCROLL_TIME \div 3
\* the coordinates a call names: whole pixels
Pixels == {Whole(0), Whole(MaxPos)}

\* The ScrollToOptions of a call: the members left and top, each given as a
\* number of pixels or left out, and the member behavior.
LeftOut == [given |-> FALSE, px |-> Zero]
Given(n) == [given |-> TRUE, px |-> n]
Members == {LeftOut} \cup {Given(n) : n \in Pixels}
Behaviors == {"auto", "smooth"}
ScrollOptions == [left : Members, top : Members, behavior : Behaviors]

\* member !== undefined ? member : instead
Member(m, instead) == IF m.given THEN m.px ELSE instead
\* member !== undefined ? ~~member : instead
Int32Member(m, instead) == IF m.given THEN ToInt32[m.px] ELSE instead
\* ~~member, which is 0 for a member left out
Int32Of(m) == IF m.given THEN ToInt32[m.px] ELSE Zero

\* shouldBailOut(firstArg) for an options object (lines 64-88); a behavior
\* other than these four makes it throw before anything is scrolled
shouldBailOut(firstArg) == firstArg.behavior \in {"undefined", "auto", "instant"}

\* Math.cos(Math.PI * k) for k = elapsed / SCROLL_TIME at the instants of the
\* model, the doubles that the function returns: 1, 0.5000000000000001,
\* -0.4999999999999998 and -1 at k = 0, 1/3, 2/3 and 1; elapsed is at most
\* SCROLL_TIME, as step clamps it
cosPi(elapsed) ==
    CASE elapsed = 0 -> Whole(1)
      [] elapsed = Third ->
            Plus[Exactly[FALSE, <<1>>, -1], Exactly[FALSE, <<1>>, -53]]
      [] elapsed = 2 * Third ->
            Negate[Minus[Exactly[FALSE, <<1>>, -1], Exactly[FALSE, <<1>>, -52]]]
      [] elapsed = SCROLL_TIME -> Negate[Whole(1)]

\* ease(k) = 0.5 * (1 - Math.cos(Math.PI * k)) (lines 54-56)
ease(elapsed) ==
    Multiply[Exactly[FALSE, <<1>>, -1], Minus[Whole(1), cosPi(elapsed)]]

\* elapsed = elapsed > 1 ? 1 : elapsed (line 162)
clampElapsed(elapsed) == IF elapsed > SCROLL_TIME THEN SCROLL_TIME ELSE elapsed

\* the state a step works on: the positions of the scrollables, the
\* callbacks requested for the next frame, those of the current frame still
\* to run, and the contexts
ScrollState == [position |-> position, frames |-> frames, batch |-> batch,
                contexts |-> contexts]

\* step(context) at the instant time (lines 154-176); in the context, time is
\* the instant of the step taken last and last the position it wrote
step(time, st, id) ==
    LET context == st.contexts[id]
        elapsed == clampElapsed(time - context.startTime)
    IN CHOOSE after \in
          {[st EXCEPT !.position[context.scrollable] = <<currentX, currentY>>,
                      !.frames = IF currentX # context.x \/ currentY # context.y
                                 THEN Append(@, id)
                                 ELSE @,
                      !.contexts[id].time = time,
                      !.contexts[id].last = <<currentX, currentY>>] :
              currentX \in {Plus[context.startX,
                                  Multiply[Minus[context.x, context.startX],
                                           ease(elapsed)]]},
              currentY \in {Plus[context.startY,
                                  Multiply[Minus[context.y, context.startY],
                                           ease(elapsed)]]}} : TRUE

\* a callback of a loop on the scrollable el waits in one of the queues
Animating(st, el) ==
    \E i \in DOMAIN st.contexts :
        /\ st.contexts[i].scrollable = el
        /\ \/ \E n \in DOMAIN st.frames : st.frames[n] = i
           \/ \E n \in DOMAIN st.batch : st.batch[n] = i

\* smoothScroll(el, x, y) at the instant time (lines 186-216); overlap tells
\* that an earlier scroll of the scrollable was animating when this one
\* started
smoothScroll(time, st, el, x, y) ==
    LET context == [scrollable |-> el,
                    startTime |-> time,
                    startX |-> st.position[el][1],
                    startY |-> st.position[el][2],
                    x |-> x,
                    y |-> y,
                    time |-> time,
                    last |-> st.position[el],
                    overlap |-> Animating(st, el)]
        id == Len(st.contexts) + 1
    IN step(time, [st EXCEPT !.contexts = Append(@, context)], id)

\* original.scroll.call(w, x, y), original.elementScroll.call(this, x, y):
\* the position is set at once, the callbacks requested staying in the
\* queue
scrollNow(st, el, x, y) == [st EXCEPT !.position[el] = <<x, y>>]

CodecIdle ==
    /\ heap = [i \in Ids |-> DefaultObj]
    /\ root = Undefined
    /\ options = DefaultOptions
    /\ pc = "start"
    /\ ser = SerInit
    /\ des = DesInit(<<>>)
    /\ text = NoText
    /\ entryList = <<>>
    /\ feOut = FeInit

InitScroll ==
    /\ CodecIdle
    /\ NoScroll

\* a call of a scroll function returns, having left the state st
Returns(st) ==
    /\ calls < MaxScrolls
    /\ calls' = calls + 1
    /\ \E s \in {st} :
          /\ position' = s.position
          /\ frames' = s.frames
          /\ contexts' = s.contexts
    /\ UNCHANGED <<heap, root, options, pc, ser, des, text, entryList, feOut,
                   clock, batch>>

\* window.scroll(options) or window.scrollTo(options) (lines 220-257); a
\* member left out stands for the current coordinate
windowScroll(st, o) ==
    LET pos == st.position["window"] IN
    IF shouldBailOut(o)
    THEN scrollNow(st, "window", Member(o.left, pos[1]), Member(o.top, pos[2]))
    ELSE smoothScroll(clock, st, "window",
                      Int32Member(o.left, pos[1]), Int32Member(o.top, pos[2]))

\* window.scrollBy(options) (lines 260-292): original.scrollBy moves the
\* position at once by what the options give, or a smooth scroll is started
\* to the position that far from the current one; a member left out stands
\* for no movement
windowScrollBy(st, o) ==
    LET pos == st.position["window"] IN
    IF shouldBailOut(o)
    THEN scrollNow(st, "window", Plus[pos[1], Member(o.left, Zero)],
                   Plus[pos[2], Member(o.top, Zero)])
    ELSE smoothScroll(clock, st, "window",
                      Plus[Int32Of(o.left), pos[1]], Plus[Int32Of(o.top), pos[2]])

\* element.scroll(options) or element.scrollTo(options) (lines 295-340)
elementScroll(st, o) ==
    LET pos == st.position["element"] IN
    IF shouldBailOut(o)
    THEN scrollNow(st, "element",
                   Int32Member(o.left, pos[1]), Int32Member(o.top, pos[2]))
    ELSE smoothScroll(clock, st, "element",
                      Int32Member(o.left, pos[1]), Int32Member(o.top, pos[2]))

\* element.scrollBy(options) (lines 343-369); with the behavior "smooth" it
\* calls this.scroll with the members ~~left + scrollLeft and
\* ~~top + scrollTop, which scroll converts once more
elementScrollBy(st, o) ==
    LET pos == st.position["element"] IN
    IF shouldBailOut(o)
    THEN scrollNow(st, "element", Plus[Int32Of(o.left), pos[1]],
                   Plus[Int32Of(o.top), pos[2]])
    ELSE elementScroll(st, [left |-> Given(Plus[Int32Of(o.left), pos[1]]),
                            top |-> Given(Plus[Int32Of(o.top), pos[2]]),
                            behavior |-> o.behavior])

\* The layout that a call of scrollIntoView on a child finds: parent is the
\* scrollable findScrollableParent returns, fixed tells that its computed
\* position is "fixed", and clientRects and parentRects are the left and
\* top of the bounding rectangles of the child and of the parent, in
\* pixels: whole numbers or, as layout in fractions of a pixel gives, not.
\* The child lies at or after the left and top edge of the parent.
\* The rectangles of the model: at (0, 0), at (0.4, 0), the double
\* 3602879701896397 * 2^-53, and at (MaxPos, MaxPos).
Rects == {<<Zero, Zero>>,
          <<[neg |-> FALSE, mant |-> <<19661, 6553, 13107, 102>>, exp |-> -53], Zero>>,
          <<Whole(MaxPos), Whole(MaxPos)>>}
Layouts ==
    {l \in [parent : Scrollables, fixed : BOOLEAN, clientRects : Rects,
            parentRects : Rects] :
        /\ l.parent = "window" => ~l.fixed /\ l.parentRects = <<Zero, Zero>>
        /\ AtMost[l.parentRects[1], l.clientRects[1]]
        /\ AtMost[l.parentRects[2], l.clientRects[2]]}

\* child.scrollIntoView(options) with the behavior "smooth" (lines 383-414)
smoothScrollIntoView(st, l) ==
    IF l.parent # "window"
    THEN LET pos == st.position[l.parent]
             revealed == smoothScroll(clock, st, l.parent,
                            Minus[Plus[pos[1], l.clientRects[1]], l.parentRects[1]],
                            Minus[Plus[pos[2], l.clientRects[2]], l.parentRects[2]])
         IN IF ~l.fixed
            THEN windowScrollBy(revealed, [left |-> Given(l.parentRects[1]),
                                           top |-> Given(l.parentRects[2]),
                                           behavior |-> "smooth"])
            ELSE revealed
    ELSE windowScrollBy(st, [left |-> Given(l.clientRects[1]),
                             top |-> Given(l.clientRects[2]),
                             behavior |-> "smooth"])

Scroll == \E o \in ScrollOptions : Returns(windowScroll(ScrollState, o))

ScrollBy == \E o \in ScrollOptions : Returns(windowScrollBy(ScrollState, o))

ElementScroll == \E o \in ScrollOptions : Returns(elementScroll(ScrollState, o))

ElementScrollBy == \E o \in ScrollOptions : Returns(elementScrollBy(ScrollState, o))

\* original.scrollIntoView.call(this, ...) (lines 375-378): the browser's
\* own scrollIntoView, which is no code of the polyfill.  All the model
\* takes from it is that it requests no frame and touches no context; where
\* it leaves the scrollable parent and, when it moves the window as well,
\* the window is an input, the whole pixels p and q
originalScrollIntoView(st, l, p, q) ==
    LET moved == scrollNow(st, l.parent, p[1], p[2]) IN
    IF l.parent # "window" /\ ~l.fixed
    THEN scrollNow(moved, "window", q[1], q[2])
    ELSE moved

\* child.scrollIntoView(options) (lines 372-415)
ScrollIntoView ==
    \E l \in Layouts : \E behavior \in Behaviors :
        IF shouldBailOut([behavior |-> behavior])
        THEN \E p, q \in Pixels \X Pixels :
                Returns(originalScrollIntoView(ScrollState, l, p, q))
        ELSE Returns(smoothScrollIntoView(ScrollState, l))

\* a callback of the loop i waits in one of the queues
Waits(i) ==
    \/ \E n \in DOMAIN frames : frames[n] = i
    \/ \E n \in DOMAIN batch : batch[n] = i

\* now() advances by a third of SCROLL_TIME; the model follows the clock
\* while a loop runs, until a third of SCROLL_TIME past the end of its
\* duration
Tick ==
    /\ \E i \in DOMAIN contexts :
          Waits(i) /\ clock < contexts[i].startTime + SCROLL_TIME + Third
    /\ clock' = clock + Third
    /\ UNCHANGED <<heap, root, options, pc, ser, des, text, entryList, feOut,
                   position, frames, batch, contexts, calls>>

\* an animation frame begins: the callbacks requested are the ones this
\* frame runs, and a callback requested from now on runs in the next frame
BeginFrame ==
    /\ batch = <<>>
    /\ frames # <<>>
    /\ batch' = frames
    /\ frames' = <<>>
    /\ UNCHANGED <<heap, root, options, pc, ser, des, text, entryList, feOut,
                   clock, position, contexts, calls>>

\* the next callback of the frame runs: step.bind(w, context) (line 174),
\* which reads now() (line 155)
Step ==
    /\ batch # <<>>
    /\ batch' = Tail(batch)
    /\ UNCHANGED <<heap, root, options, pc, ser, des, text, entryList, feOut,
                   clock, calls>>
    /\ \E st \in {step(clock, ScrollState, Head(batch))} :
          /\ position' = st.position
          /\ frames' = st.frames
          /\ contexts' = st.contexts

NextScroll ==
    \/ Scroll
    \/ ScrollBy
    \/ ElementScroll
    \/ ElementScrollBy
    \/ ScrollIntoView
    \/ Tick
    \/ BeginFrame
    \/ Step

\* Fairness: now() is a clock, so time passes; and a callback handed to
\* requestAnimationFrame is called before the next repaint, so a frame with
\* callbacks requested begins and each of its callbacks runs.  A page hidden
\* for good, whose frames the browser withholds, is not a behaviour of this
\* specification.  Only the conjuncts of the properties that say a loop
\* stops (Running ~> ~Running) depend on the fairness.
SpecScroll ==
    InitScroll /\ [][NextScroll]_vars
        /\ WF_vars(Tick) /\ WF_vars(BeginFrame) /\ WF_vars(Step)

----------------------------------------------------------------------------
\* Vocabulary of the properties.

IsFnSym(x) == x.t \in {"function", "symbol"}

\* the children of an object that the codec visits, in the order of the visit
RECURSIVE Flatten(_)
Flatten(entries) ==
    IF entries = <<>> THEN <<>>
    ELSE <<Head(entries)[1], Head(entries)[2]>> \o Flatten(Tail(entries))

Kids(o) ==
    CASE o.cls \in {"Array", "Set"} -> o.items
      [] o.cls \in {"Object", "Map"} -> Flatten(o.entries)
      [] OTHER -> <<>>

KidSet(o) == {Kids(o)[i] : i \in DOMAIN Kids(o)}

\* the values reachable from the values of todo
RECURSIVE ReachFrom(_, _, _)
ReachFrom(h, todo, done) ==
    IF todo = {} THEN done
    ELSE LET x == CHOOSE y \in todo : TRUE
             kids == IF IsRef(x) THEN KidSet(h[x.id]) ELSE {}
         IN ReachFrom(h, (todo \cup kids) \ (done \cup {x}), done \cup {x})

Reach(h, x) == ReachFrom(h, {x}, {})

\* an object of the graph lies on a cycle of references
OnCycle(h, x) == IsRef(x) /\ \E y \in KidSet(h[x.id]) : x \in Reach(h, y)
HasCycle(h, x) == \E y \in Reach(h, x) : OnCycle(h, y)

\* the pairs (value of the input graph, value of the output graph) that the
\* same path reaches from (a, b)
RECURSIVE CorrFrom(_, _, _, _)
CorrFrom(hin, hout, todo, done) ==
    IF todo = {} THEN done
    ELSE LET p == CHOOSE q \in todo : TRUE
             ka == IF IsRef(p[1]) THEN Kids(hin[p[1].id]) ELSE <<>>
             kb == IF IsRef(p[2]) THEN Kids(hout[p[2].id]) ELSE <<>>
             kids == IF Len(ka) = Len(kb) THEN {<<ka[i], kb[i]>> : i \in DOMAIN ka} ELSE {}
         IN CorrFrom(hin, hout, (todo \cup kids) \ (done \cup {p}), done \cup {p})

Corr(hin, a, hout, b) == CorrFrom(hin, hout, {<<a, b>>}, {})

\* a is the same as b, their children apart: the same scalar, or objects of
\* the same class with the same content and as many children
Alike(hin, a, hout, b) ==
    IF IsRef(a) /\ IsRef(b)
    THEN LET oa == hin[a.id]
             ob == hout[b.id]
         IN /\ oa.cls = ob.cls
            /\ oa.prim = ob.prim
            /\ oa.bytes = ob.bytes
            /\ oa.flags = ob.flags
            /\ Len(Kids(oa)) = Len(Kids(ob))
    ELSE a = b

DeepEqual(hin, a, hout, b) ==
    \A p \in Corr(hin, a, hout, b) : Alike(hin, p[1], hout, p[2])

Relaxed == options.json \/ options.lossy
Called == pc # "start"

\* the reconstruction of the value x of the input graph
Out(x) == des.map[IdxKey(ser.map[x])]

----------------------------------------------------------------------------
\* C1: identity sharing survives the round trip in the default mode: two
\* paths that reach the same object of the input graph reach one and the
\* same object of deserialize(serialize(v)).
C1_IdentitySharing ==
    (pc = "deserialized" /\ options = DefaultOptions) =>
        \A p, q \in Corr(heap, root, des.heap, des.ret) :
            (IsRef(p[1]) /\ p[1] = q[1]) => p[2] = q[2]

\* C2: cycle safety: on a graph with a cycle through containers, serialize in
\* the default mode and deserialize of its output both terminate (neither
\* exhausts the call stack), and every reference of the cycle is
\* reconstructed as a reference to the very object reconstructed for its
\* target.
C2_CycleSafety ==
    (Called /\ options = DefaultOptions /\ HasCycle(heap, root)) =>
        /\ ser.err # "StackOverflow"
        /\ des.err # "StackOverflow"
        /\ pc = "deserialized" =>
              \A a \in Reach(heap, root) :
                  OnCycle(heap, a) =>
                      /\ IsRef(Out(a))
                      /\ Len(Kids(des.heap[Out(a).id])) = Len(Kids(heap[a.id]))
                      /\ \A i \in DOMAIN Kids(heap[a.id]) :
                            LET kid == Kids(heap[a.id])[i] IN
                            (IsRef(kid) /\ a \in Reach(heap, kid)) =>
                                Kids(des.heap[Out(a).id])[i] = Out(kid)

\* a cyclic graph was serialized and deserialized: the root holds itself, and
\* so does its reconstruction
C2_Witness ==
    /\ pc = "deserialized"
    /\ options = DefaultOptions
    /\ root \in KidSet(heap[1])
    /\ IsRef(des.ret)
    /\ des.ret \in KidSet(des.heap[des.ret.id])

\* the kinds of value the round trip is claimed for
SupportedClasses ==
    {"Array", "Object", "Map", "Set", "Date", "RegExp", "Boolean", "Number",
     "String", "BigInt"}

Supported(h, x) ==
    \A y \in Reach(h, x) :
        IF IsRef(y)
        THEN h[y.id].cls \in SupportedClasses /\ h[y.id].toJSON = Absent
        ELSE ~IsFnSym(y)

\* C3: round trip: for a graph built from the supported kinds only, without
\* function or symbol, serialize in the default mode and deserialize succeed
\* and deserialize(serialize(v)) is deeply equal to v.
C3_RoundTrip ==
    (Called /\ options = DefaultOptions /\ Supported(heap, root)) =>
        /\ pc # "threw"
        /\ pc = "deserialized" => DeepEqual(heap, root, des.heap, des.ret)

\* C4: strict mode: a function or symbol reachable from the root makes
\* serialize, called with neither json nor lossy, raise the not-serializable
\* TypeError and return no wire sequence.
C4_StrictRaises ==
    (Called /\ options = DefaultOptions /\ \E y \in Reach(heap, root) : IsFnSym(y)) =>
        pc = "threw" /\ ser.err = "TypeError"

\* the record in the slot of a value that was encoded
RecOf(x) == ser.wire[ser.map[x] + 1]

KeptProp(e) == ~IsFnSym(e[2])
KeptEntry(e) == ~IsFnSym(e[1]) /\ ~IsFnSym(e[2])
KeptItem(x) == ~IsFnSym(x)

\* the payload of a container in relaxed mode: an array keeps every element,
\* an object, a Map and a Set hold the entries that have no function or
\* symbol, in their order
RelaxedPayload(a) ==
    LET o == heap[a.id]
        rec == RecOf(a)
    IN CASE o.cls = "Array" ->
              /\ Len(rec.list) = Len(o.items)
              /\ \A i \in DOMAIN o.items :
                    IsFnSym(o.items[i]) => rec.list[i] = ser.map[o.items[i]]
         [] o.cls = "Object" ->
              LET kept == SelectSeq(o.entries, KeptProp) IN
              /\ Len(rec.pairs) = Len(kept)
              /\ \A j \in DOMAIN kept : rec.pairs[j][1] = ser.map[kept[j][1]]
         [] o.cls = "Map" ->
              LET kept == SelectSeq(o.entries, KeptEntry) IN
              /\ Len(rec.pairs) = Len(kept)
              /\ \A j \in DOMAIN kept :
                    kept[j][1] \in DOMAIN ser.map => rec.pairs[j][1] = ser.map[kept[j][1]]
         [] o.cls = "Set" ->
              LET kept == SelectSeq(o.items, KeptItem) IN
              /\ Len(rec.list) = Len(kept)
              /\ \A j \in DOMAIN kept :
                    kept[j] \in DOMAIN ser.map => rec.list[j] = ser.map[kept[j]]
         [] OTHER -> TRUE

\* C5: relaxed mode: with json or lossy, serialize never raises the
\* not-serializable error; a property, Map entry or Set element that is a
\* function or symbol leaves no entry in the payload; a function or symbol at
\* the root or in an array is encoded as the scalar record [PRIMITIVE, null],
\* which decodes to null, and the array keeps its length and positions.
C5_Relaxed ==
    (Called /\ Relaxed) =>
        /\ ser.err # "TypeError"
        /\ ser.err = "" =>
              \A a \in DOMAIN ser.map :
                  /\ IsFnSym(a) => RecOf(a) = RecVal(IntTag(PRIMITIVE), Null)
                  /\ IsRef(a) => RelaxedPayload(a)
        /\ pc \in {"deserialized", "parsed"} =>
              \A a \in DOMAIN ser.map :
                  /\ IsFnSym(a) => Out(a) = Null
                  /\ (IsRef(a) /\ heap[a.id].cls = "Array") =>
                        LET items == heap[a.id].items
                            out == des.heap[Out(a).id].items
                        IN /\ Len(out) = Len(items)
                           /\ \A i \in DOMAIN items : IsFnSym(items[i]) => out[i] = Null

\* an array of a function and a string was cloned in lossy mode, and an
\* object lost its symbol property
C5_Witness ==
    /\ pc = "deserialized"
    /\ options.lossy
    /\ heap[1].cls = "Array"
    /\ heap[1].items = <<Fn(1), Str("a")>>
    /\ des.heap[des.ret.id].items = <<Null, Str("a")>>

\* the value whose record stands for x: x itself or, with json, what the
\* toJSON methods make of it
RECURSIVE Converted(_, _, _, _)
Converted(h, json, x, fuel) ==
    IF fuel > 0 /\ json /\ IsRef(x) /\ typeOf(h, x) = <<OBJECT, EMPTY>>
       /\ h[x.id].toJSON # Absent
    THEN Converted(h, json, h[x.id].toJSON, fuel - 1)
    ELSE x

SlotIds(rec) ==
    IF rec.tag.isnum /\ rec.tag.num \in {ARRAY, SET}
    THEN {rec.list[i] : i \in DOMAIN rec.list}
    ELSE IF rec.tag.isnum /\ rec.tag.num \in {OBJECT, MAP}
    THEN {rec.pairs[i][1] : i \in DOMAIN rec.pairs} \cup {rec.pairs[i][2] : i \in DOMAIN rec.pairs}
    ELSE {}

\* C6: wire well-formedness: in every sequence serialize returns, slot 0
\* holds the record of the root value and every slot-id of an array, object,
\* Map or Set payload is an index of the sequence; and during the encoding no
\* slot-id is put into a payload before its record was appended.
C6_WellFormed ==
    /\ ~ser.early
    /\ (Called /\ ser.err = "") =>
          /\ Len(ser.wire) >= 1
          /\ ser.ret = 0
          /\ ser.map[Converted(heap, options.json, root, MaxStack)] = 0
          /\ \A i \in DOMAIN ser.wire :
                SlotIds(ser.wire[i]) \subseteq 0 .. (Len(ser.wire) - 1)

\* a container that holds itself and another object was serialized
C6_Witness ==
    /\ pc = "serialized"
    /\ heap[1].cls = "Array"
    /\ heap[1].items = <<Ref(2), Ref(1)>>
    /\ ser.wire[1].list = <<1, 0>>

\* C7: one slot per identity: every value encoded has exactly one slot, no
\* two values share a slot, a later encounter of a value appends no record
\* and gives the slot it has, and the sequence is as long as the number of
\* values encoded.
C7_OneSlot ==
    Called =>
        /\ Len(ser.wire) = Cardinality(DOMAIN ser.map)
        /\ \A a, b \in DOMAIN ser.map : ser.map[a] = ser.map[b] => a = b
        /\ \A a \in DOMAIN ser.map : ser.map[a] \in 0 .. (Len(ser.wire) - 1)
        /\ ser.err = "" =>
              /\ ser.calls = ser.hits + ser.fwd + Len(ser.wire)
              /\ \A a \in DOMAIN ser.map :
                    (IsRef(a) /\ heap[a.id].cls = "Array") =>
                        \A i \in DOMAIN heap[a.id].items :
                            RecOf(a).list[i] =
                                ser.map[Converted(heap, options.json, heap[a.id].items[i],
                                                  MaxStack)]

\* an array that holds the same object twice was serialized: one record for
\* the object, its slot-id twice in the payload
C7_Witness ==
    /\ pc = "serialized"
    /\ heap[1].cls = "Array"
    /\ heap[1].items = <<Ref(2), Ref(2)>>
    /\ Len(ser.wire) = 2 + Len(Kids(heap[2]))
    /\ ser.wire[1].list = <<1, 1>>
    /\ ser.hits >= 1

\* C8: an error keeps its class name and its message across the round trip
\* and nothing else: the record is {name, message} with the name of the
\* error's class, and deserialize makes an error of that class with that
\* message.
C8_ErrorClass ==
    (Called /\ ser.err = "") =>
        \A e \in DOMAIN ser.map :
            (IsRef(e) /\ heap[e.id].cls \in ErrorClasses) =>
                /\ RecOf(e) = RecError(IntTag(ERROR), heap[e.id].cls, heap[e.id].prim)
                /\ pc = "deserialized" =>
                      des.heap[Out(e).id] =
                          [NewObj(heap[e.id].cls) EXCEPT !.prim = heap[e.id].prim]

\* no NaN in the graph: not as the root, an element, a key, a value or the
\* result of a toJSON method, nor in a boxed number
NoNaN ==
    /\ root # Num("NaN")
    /\ \A i \in Ids :
          /\ Num("NaN") \notin KidSet(heap[i])
          /\ heap[i].toJSON # Num("NaN")
          /\ heap[i].cls = "Number" => heap[i].prim # Num("NaN")

SameClone(d1, d2) == d1.err = d2.err /\ d1.ret = d2.ret /\ d1.heap = d2.heap

\* what stringify and parse do when the graph meets the condition P
TextTransport(P) ==
    (Called /\ options = jsonOptions) =>
        /\ ser.err # "TypeError"
        /\ ser = serialize(heap, root, [json |-> TRUE, lossy |-> TRUE])
        /\ pc = "stringified" => text = stringify(ser.wire)
        /\ (P /\ ser.err = "" /\ pc \in {"parsed", "threw"}) =>
              SameClone(des, deserialize(ser.wire))

\* C9 as claimed: stringify never raises the not-serializable error and is
\* the text of serialize(v, {json: true, lossy: true}), and for every value v
\* parse(stringify(v)) is what deserialize(serialize(v, {json: true, lossy:
\* true})) is.
C9_TextTransportAnyValue == TextTransport(TRUE)

\* C9 as amended: stringify never raises the not-serializable error and is
\* the text of serialize(v, {json: true, lossy: true}), and for every value v
\* that holds no number JSON cannot write (NaN) parse(stringify(v)) is what
\* deserialize(serialize(v, {json: true, lossy: true})) is.
C9_TextTransport == TextTransport(NoNaN)

\* the Map of 1 -> "a" and "a" -> 1 went through the text and came back
C9_Witness ==
    /\ pc = "parsed"
    /\ heap[1].cls = "Map"
    /\ heap[1].entries = << <<Num("1"), Str("a")>>, <<Str("a"), Num("1")>> >>
    /\ des.heap[des.ret.id].cls = "Map"
    /\ des.heap[des.ret.id].entries = heap[1].entries

----------------------------------------------------------------------------
\* Object.fromEntries.

EntryKey(e) == ToPropertyKey(EntryGet(heap, e, 0))
EntryVal(e) == EntryGet(heap, e, 1)

\* the last entry of the list that carries the key of entry i
LastWithKey(i) ==
    CHOOSE j \in DOMAIN entryList :
        /\ EntryKey(entryList[j]) = EntryKey(entryList[i])
        /\ \A k \in DOMAIN entryList :
              EntryKey(entryList[k]) = EntryKey(entryList[i]) => k <= j

\* obj[key] of the object returned: an own property, else what the
\* prototype gives (through the accessor of Object.prototype the prototype
\* itself for "__proto__", nothing for the other keys of the model; nothing
\* at all once the prototype is null)
Lookup(r, key) ==
    IF HasOwn(r.obj, key)
    THEN (CHOOSE p \in {r.obj[n] : n \in DOMAIN r.obj} : p[1] = key)[2]
    ELSE IF key = Str("__proto__") /\ InheritsProtoSetter(heap, r.proto, Len(heap) + 1)
         THEN r.proto
         ELSE Undefined

\* C10: Object.fromEntries raises a TypeError and returns no mapping if an
\* entry of the list is not an object; otherwise it returns an object that
\* maps the key entry[0] of every entry to entry[1] of the last entry that
\* carries the key and has no other key; and it leaves the entry list
\* unchanged.
C10_FromEntries ==
    /\ [](Called =>
            IF \E i \in DOMAIN entryList : ~IsObject(entryList[i])
            THEN pc = "threw" /\ feOut.err = "TypeError" /\ feOut.obj = <<>>
            ELSE /\ pc = "returned"
                 /\ feOut.err = ""
                 /\ \A i \in DOMAIN entryList :
                       Lookup(feOut, EntryKey(entryList[i]))
                           = EntryVal(entryList[LastWithKey(i)])
                 /\ \A n \in DOMAIN feOut.obj :
                       /\ \E i \in DOMAIN entryList : feOut.obj[n][1] = EntryKey(entryList[i])
                       /\ \A m \in DOMAIN feOut.obj :
                             feOut.obj[m][1] = feOut.obj[n][1] => m = n)
    /\ [][entryList' = entryList /\ heap' = heap]_vars

----------------------------------------------------------------------------
\* The json option.

\* an object that the serializer replaces by the result of its toJSON method
HasToJSON(h, x) ==
    IsRef(x) /\ typeOf(h, x) = <<OBJECT, EMPTY>> /\ h[x.id].toJSON # Absent

\* C11: with options.json the traversal is bounded by the identity map:
\* serialize terminates on every graph (it does not exhaust the call stack),
\* also when an object with a toJSON method is reachable from the result of
\* that method, and an object with a toJSON method that an array holds twice
\* gets the same slot-id both times.
C11_JsonTerminates ==
    (Called /\ options.json) =>
        /\ ser.err # "StackOverflow"
        /\ ser.err = "" =>
              \A a \in DOMAIN ser.map :
                  (IsRef(a) /\ heap[a.id].cls = "Array") =>
                      \A i, j \in DOMAIN heap[a.id].items :
                          (/\ heap[a.id].items[i] = heap[a.id].items[j]
                           /\ HasToJSON(heap, heap[a.id].items[i])) =>
                              RecOf(a).list[i] = RecOf(a).list[j]

----------------------------------------------------------------------------
\* Smooth scroll.

Target(c) == <<c.x, c.y>>

\* v lies in the range between a and b
Between(a, v, b) ==
    \/ AtMost[a, v] /\ AtMost[v, b]
    \/ AtMost[b, v] /\ AtMost[v, a]

\* a callback of scroll i runs in the current frame and has not run yet
InBatch(i) == \E n \in DOMAIN batch : batch[n] = i

\* a frame callback of scroll i is requested
Pending(i) == InBatch(i) \/ \E n \in DOMAIN frames : frames[n] = i

\* a callback waits in one of the queues
Running == frames # <<>> \/ batch # <<>>

\* the step of the event loop runs the callback of scroll i
Steps(i) == batch # <<>> /\ Head(batch) = i /\ batch' = Tail(batch)

\* the step of the event loop begins an animation frame
FrameBegins == batch = <<>> /\ frames # <<>> /\ batch' = frames /\ frames' = <<>>

\* C12: every smooth scroll eventually stops at its target: its step writes
\* a position on each animation frame while it runs and requests another
\* frame exactly when the position it just wrote differs from (x, y); at the
\* first step at or after SCROLL_TIME from its start it writes (x, y) and
\* requests no frame; no step writes a position outside the range between
\* the start and the target; and whenever scrolls are running, eventually
\* none is: every one of them has stopped, its last write being its target.
C12_StopsAtTarget ==
    /\ [](\A i \in DOMAIN contexts :
            LET c == contexts[i] IN
            /\ c.startTime <= c.time /\ c.time <= clock
            /\ Pending(i) <=> c.last # Target(c)
            /\ c.time >= c.startTime + SCROLL_TIME
                  => (c.last = Target(c) /\ ~Pending(i))
            /\ Between(c.startX, c.last[1], c.x)
            /\ Between(c.startY, c.last[2], c.y))
    /\ [][/\ batch' # batch => (FrameBegins \/ batch' = Tail(batch))
          /\ \A i \in DOMAIN contexts :
                IF Steps(i)
                THEN /\ contexts'[i].time = clock
                     /\ position'[contexts[i].scrollable] = contexts'[i].last
                ELSE contexts'[i] = contexts[i]]_vars
    /\ Running ~> ~Running

\* the scrolls of the scrollable el, in the order they were started
ScrollsOf(el) == {i \in DOMAIN contexts : contexts[i].scrollable = el}

\* a loop of the scrollable el is running
RunningOn(el) == \E i \in ScrollsOf(el) : Pending(i)

\* the scroll of el started last, when it was started while an earlier one
\* of el was animating
LastOf(el) == CHOOSE i \in ScrollsOf(el) : \A j \in ScrollsOf(el) : j <= i
LastOverlaps(el) == ScrollsOf(el) # {} /\ contexts[LastOf(el)].overlap

\* C13: overlapping smooth scrolls on one scrollable: starting a scroll
\* cancels no loop that is running; on every frame every running loop
\* steps, the callbacks running in the order in which they were requested;
\* all of them stop; and at the step with which the last loop of the
\* scrollable stops its position is the target of the scroll started last.
C13_LastTargetWins ==
    /\ [][Len(contexts') > Len(contexts) =>
            \A i \in DOMAIN contexts : Pending(i) => Pending(i)']_vars
    /\ [][/\ batch' # batch => (FrameBegins \/ batch' = Tail(batch))
          /\ frames' # frames =>
                \/ FrameBegins
                \/ \E n \in 1 .. 2 : /\ SubSeq(frames', 1, Len(frames)) = frames
                                      /\ Len(frames') = Len(frames) + n]_vars
    /\ [][\A el \in Scrollables :
            (LastOverlaps(el) /\ RunningOn(el) /\ ~RunningOn(el)') =>
                position'[el] = Target(contexts[LastOf(el)])]_vars
    /\ Running ~> ~Running

====
